---- MODULE Spec2Model ----
(***************************************************************************)
(* Model of the scan / resolve / emit cycle of Ze::Board                   *)
(* (firmware/keyboard.cpp, firmware/keyboard.h, firmware/constants.h).     *)
(*                                                                         *)
(* One update() call is four steps taken in the order of the code:         *)
(*   update_scan            lines 130-140  reset + scan_keys               *)
(*   remove_released_keys   lines 195-221  release phase                   *)
(*   update_keys_to_send    lines 225-240  placement phase + media         *)
(*   send_keys              lines 281-295  the emission                    *)
(* The firmware is single threaded: `pc` forces that order, and only the   *)
(* first step has an input (the switches the scan reads as LOW).           *)
(***************************************************************************)
EXTENDS Integers, Sequences, FiniteSets, TLC

\* ------------------------------------------------------------ constants
MAX_NUM_KEYS == 6
KEY_DUMMY == 0
KEY_LSHIFT == -1
KEY_CTRL == -2
KEY_ALT == -3
KEY_ALTGR == -4
KEY_SUPER == -5
KEY_RSHIFT == -6
KEY_FN == -7
KEY_FN2 == -8
NUM_MODIFIERS == 6

\* Number of update() cycles a behaviour of the model runs.
MaxCycles == 2

\* ------------------------------------------------------------ Key model
\* Key(code, second, third), keyboard.cpp 20-24.
Key3(code, second, third) ==
    [code |-> code, second |-> second, third |-> third]

\* Key(code, second), keyboard.cpp 14-18.
Key2(code, second) == Key3(code, second, KEY_DUMMY)

\* Key(code), keyboard.cpp 8-12.
Key1(code) == Key3(code, KEY_DUMMY, KEY_DUMMY)

\* Key(), keyboard.cpp 4-6.  The constructor sets `code` only; `second` and
\* `third` of a dummy key are indeterminate in the code.  No path reads them:
\* operator== compares `code` first and a dummy is only ever compared with a
\* key whose code is not KEY_DUMMY, and has_second() is called on
\* pressed_media only after !is_dummy().  They are written here as KEY_DUMMY.
Key0 == Key3(KEY_DUMMY, KEY_DUMMY, KEY_DUMMY)

is_modifier(k) == k.code < 0

\* (0xFF00 & code) == 0xE400: bits 8..15 of the two's complement int are
\* 0xE4 (\div rounds down, so this also holds for a negative code).
is_media(k) == (k.code \div 256) % 256 = 228

is_dummy(k) == k.code = KEY_DUMMY

\* Key::operator==: the third code is not compared.
KeyEq(a, b) == a.code = b.code /\ a.second = b.second

is_fn(k) == k.code = KEY_FN

\* is_fn2 comparing with the constant of is_fn.
is_fn2_as_fn(k) == k.code = KEY_FN

is_fn2(k) == k.code = KEY_FN2

has_second(k) == k.second # KEY_DUMMY

has_third(k) == k.third # KEY_DUMMY

\* The conversion left out: the int is kept as it is.
ToUint8_wide(x) == x

\* Conversion of an int to uint8_t.
ToUint8(x) == x % 256

RECURSIVE BitOr(_, _)
\* a | b on non-negative ints.
BitOr(a, b) ==
    IF a = 0 THEN b
    ELSE IF b = 0 THEN a
    ELSE (IF a % 2 = 1 \/ b % 2 = 1 THEN 1 ELSE 0) + 2 * BitOr(a \div 2, b \div 2)

\* MODIFIER_MAP[NUM_MODIFIERS], indexed from 0.  The MODIFIERKEY_* values are
\* those of the Teensy core (0xE000 | bit).
MODIFIER_MAP ==
    [i \in 0..(NUM_MODIFIERS - 1) |->
        CASE i = 0 -> 57346
          [] i = 1 -> 57345
          [] i = 2 -> 57348
          [] i = 3 -> 57408
          [] i = 4 -> 57352
          [] i = 5 -> 57376]

translate_modifier(modifier) ==
    IF modifier >= 0 THEN -1 ELSE MODIFIER_MAP[-1 * modifier - 1]

\* ------------------------------------------------------------ layout
\* A reduced KEYS table: two rows of seven positions that keep every kind of
\* entry the scan distinguishes.  Seven ordinary keys, pairwise different
\* under operator== as in the table of keyboard.h: plain keys, keys with a
\* second code, with a third code, and one with both (the constructor of
\* lines 20-24 allows it; the table has none).  The KEY_* and KEYPAD_* macros
\* come from the Teensy core, which is outside the repository: codes are
\* written as HID usages, and KEY_P as 0xF000 | usage, the form the core gives
\* them, so that the uint8_t conversion of try_place_key() is visible.  Media
\* keys carry 0xE400 | usage.  One position is an unpopulated (dummy) entry;
\* it has no switch and is never read as LOW.  The third row carries the
\* other four modifier keys of the table, so that every index of MODIFIER_MAP
\* is looked up.
KEY_1 == Key2(30, 58)
KEY_Q == Key3(20, KEY_DUMMY, 95)
KEY_X == Key3(27, 80, 90)
KEY_P == Key1(61459)
KEY_L == Key2(15, 82)
KEY_K == Key1(14)
KEY_J == Key1(13)
KEY_VOL_UP == Key1(58601)
KEY_PLAY == Key2(58573, 58594)

KEYS ==
    << << KEY_1, KEY_Q, KEY_X, Key1(KEY_FN), Key1(KEY_LSHIFT), KEY_VOL_UP, KEY_P >>,
       << Key0, KEY_L, KEY_K, KEY_J, Key1(KEY_FN2), Key1(KEY_CTRL), KEY_PLAY >>,
       << Key1(KEY_ALT), Key1(KEY_ALTGR), Key1(KEY_SUPER), Key1(KEY_RSHIFT),
          Key0, Key0, Key0 >> >>

NUM_ROWS == Len(KEYS)
NUM_COLS == Len(KEYS[1])

\* KEYS[row][col] with the code's indices (from 0).
KeyAt(row, col) == KEYS[row + 1][col + 1]

Slots == 0..(MAX_NUM_KEYS - 1)

\* The positions that carry a switch.
Wired ==
    {p \in (0..(NUM_ROWS - 1)) \X (0..(NUM_COLS - 1)) : ~is_dummy(KeyAt(p[1], p[2]))}

IsOrdinary(k) ==
    ~is_dummy(k) /\ ~is_fn(k) /\ ~is_fn2(k) /\ ~is_modifier(k) /\ ~is_media(k)

OrdinaryPos == {p \in Wired : IsOrdinary(KeyAt(p[1], p[2]))}

SpecialPos ==
    {p \in Wired : LET k == KeyAt(p[1], p[2])
                   IN  ~is_fn(k) /\ ~is_fn2(k) /\ (is_modifier(k) \/ is_media(k))}

LayerPos == {p \in Wired : is_fn(KeyAt(p[1], p[2])) \/ is_fn2(KeyAt(p[1], p[2]))}

ModifierPos ==
    {p \in SpecialPos : is_modifier(KeyAt(p[1], p[2]))}

MediaPos ==
    {p \in SpecialPos : ~is_modifier(KeyAt(p[1], p[2]))}

\* The modifier and media keys of the first two rows.
MixedPos == {p \in SpecialPos : p[1] <= 1}

\* The readings of the matrix one scan can see.  Bound of the model, one of:
\*   any set of ordinary, FN and FN2 keys (up to all seven ordinary keys);
\*   any set of the modifier and media keys of the first two rows, FN and
\*   FN2, with or without the ordinary key of row 0, column 0;
\*   any set of modifier keys.
Chords ==
    (SUBSET (OrdinaryPos \cup LayerPos))
    \cup {a \cup b : a \in SUBSET (LayerPos \cup MixedPos), b \in SUBSET {<<0, 0>>}}
    \cup (SUBSET ModifierPos)

\* ------------------------------------------------------------ state
VARIABLES
    pc,                    \* position inside update()
    cycle,                 \* update() calls started
    pins,                  \* positions digitalRead() reports LOW in this cycle
    fn_pressed,
    fn2_pressed,
    num_keys_pressed,
    num_keys_released,
    tot_num_keys_pressed,
    curr_pressed_keys,
    prev_pressed_keys,     \* history: curr_pressed_keys of the cycle before
    all_pressed_keys,
    just_released_keys,
    keys_to_send,
    codes_to_send,
    current_modifier,
    pressed_media,
    current_media,
    overrun,               \* a write went past the end of its buffer
    bad_lookup,            \* MODIFIER_MAP was read outside 0..NUM_MODIFIERS-1
    hid,                   \* what the Keyboard object was last given
    sends                  \* Keyboard.send_now() calls

vars ==
    << pc, cycle, pins, fn_pressed, fn2_pressed, num_keys_pressed,
       num_keys_released, tot_num_keys_pressed, curr_pressed_keys,
       prev_pressed_keys, all_pressed_keys, just_released_keys, keys_to_send,
       codes_to_send, current_modifier, pressed_media, current_media, overrun,
       bad_lookup, hid, sends >>

NumPositions == NUM_ROWS * NUM_COLS

\* arr[i] = v as the code writes it; a write outside the buffer is recorded.
Store(arr, i, v) == IF i \in DOMAIN arr THEN [arr EXCEPT ![i] = v] ELSE arr

InBuffer(arr, i) == i \in DOMAIN arr

\* Board::init(), keyboard.cpp 68-100.  num_keys_released and
\* current_modifier are not set by init(); update() sets both before any
\* read, and a Board with static storage starts zeroed.
Init ==
    /\ pc = "idle"
    /\ cycle = 0
    /\ pins = {}
    /\ fn_pressed = FALSE
    /\ fn2_pressed = FALSE
    /\ num_keys_pressed = 0
    /\ num_keys_released = 0
    /\ tot_num_keys_pressed = 0
    /\ curr_pressed_keys = [i \in Slots |-> Key0]
    /\ prev_pressed_keys = [i \in Slots |-> Key0]
    /\ all_pressed_keys = [i \in 0..(NumPositions - 1) |-> Key0]
    /\ just_released_keys = [i \in Slots |-> Key0]
    /\ keys_to_send = [i \in Slots |-> Key0]
    /\ codes_to_send = [i \in Slots |-> 0]
    /\ current_modifier = 0
    /\ pressed_media = Key0
    /\ current_media = 0
    /\ overrun = FALSE
    /\ bad_lookup = FALSE
    /\ hid = [keys |-> [i \in Slots |-> 0], modifier |-> 0, media |-> 0]
    /\ sends = 0

\* ------------------------------------------------------------ scan
RECURSIVE reset_all_pressed(_, _)
\* Second loop of reset_pressed_keys(): clear up to the first dummy entry.
reset_all_pressed(i, arr) ==
    IF i = NumPositions \/ is_dummy(arr[i]) THEN arr
    ELSE reset_all_pressed(i + 1, [arr EXCEPT ![i] = Key0])

\* scan_key without the room test of line 183: every ordinary key is written
\* at curr_pressed_keys[num_keys_pressed].
scan_key_no_room_test(st, pressed) ==
    LET st1 == [st EXCEPT
                  !.all_pressed_keys = Store(@, st.tot_num_keys_pressed, pressed),
                  !.overrun = @ \/ ~InBuffer(st.all_pressed_keys, st.tot_num_keys_pressed),
                  !.tot_num_keys_pressed = ToUint8(@ + 1)]
    IN  IF is_fn(pressed) THEN [st1 EXCEPT !.fn_pressed = TRUE]
        ELSE IF is_fn2(pressed) THEN [st1 EXCEPT !.fn2_pressed = TRUE]
        ELSE IF is_modifier(pressed) THEN
            IF InBuffer(MODIFIER_MAP, -1 * pressed.code - 1)
            THEN [st1 EXCEPT
                    !.current_modifier = BitOr(@, translate_modifier(pressed.code))]
            ELSE [st1 EXCEPT !.bad_lookup = TRUE]
        ELSE IF is_media(pressed) THEN [st1 EXCEPT !.pressed_media = pressed]
        ELSE [st1 EXCEPT
                !.curr_pressed_keys = Store(@, st.num_keys_pressed, pressed),
                !.overrun = @ \/ ~InBuffer(st.curr_pressed_keys, st.num_keys_pressed),
                !.num_keys_pressed = ToUint8(@ + 1)]

\* scan_key with the media key of line 178 kept once set: the first media
\* key of the scan wins.
scan_key_first_media(st, pressed) ==
    LET st1 == [st EXCEPT
                  !.all_pressed_keys = Store(@, st.tot_num_keys_pressed, pressed),
                  !.overrun = @ \/ ~InBuffer(st.all_pressed_keys, st.tot_num_keys_pressed),
                  !.tot_num_keys_pressed = ToUint8(@ + 1)]
    IN  IF is_fn(pressed) THEN [st1 EXCEPT !.fn_pressed = TRUE]
        ELSE IF is_fn2(pressed) THEN [st1 EXCEPT !.fn2_pressed = TRUE]
        ELSE IF is_modifier(pressed) THEN
            IF InBuffer(MODIFIER_MAP, -1 * pressed.code - 1)
            THEN [st1 EXCEPT
                    !.current_modifier = BitOr(@, translate_modifier(pressed.code))]
            ELSE [st1 EXCEPT !.bad_lookup = TRUE]
        ELSE IF is_media(pressed) THEN
            IF is_dummy(st.pressed_media) THEN [st1 EXCEPT !.pressed_media = pressed]
            ELSE st1
        ELSE [st1 EXCEPT
                !.curr_pressed_keys =
                    IF st.num_keys_pressed < MAX_NUM_KEYS
                    THEN Store(@, st.num_keys_pressed, pressed) ELSE @,
                !.overrun =
                    @ \/ (st.num_keys_pressed < MAX_NUM_KEYS
                          /\ ~InBuffer(st.curr_pressed_keys, st.num_keys_pressed)),
                !.num_keys_pressed = ToUint8(@ + 1)]

\* scan_key with `=` for the `|=` of line 174: the last modifier of the scan
\* replaces the ones before it.
scan_key_modifier_assign(st, pressed) ==
    LET st1 == [st EXCEPT
                  !.all_pressed_keys = Store(@, st.tot_num_keys_pressed, pressed),
                  !.overrun = @ \/ ~InBuffer(st.all_pressed_keys, st.tot_num_keys_pressed),
                  !.tot_num_keys_pressed = ToUint8(@ + 1)]
    IN  IF is_fn(pressed) THEN [st1 EXCEPT !.fn_pressed = TRUE]
        ELSE IF is_fn2(pressed) THEN [st1 EXCEPT !.fn2_pressed = TRUE]
        ELSE IF is_modifier(pressed) THEN
            IF InBuffer(MODIFIER_MAP, -1 * pressed.code - 1)
            THEN [st1 EXCEPT !.current_modifier = translate_modifier(pressed.code)]
            ELSE [st1 EXCEPT !.bad_lookup = TRUE]
        ELSE IF is_media(pressed) THEN [st1 EXCEPT !.pressed_media = pressed]
        ELSE [st1 EXCEPT
                !.curr_pressed_keys =
                    IF st.num_keys_pressed < MAX_NUM_KEYS
                    THEN Store(@, st.num_keys_pressed, pressed) ELSE @,
                !.overrun =
                    @ \/ (st.num_keys_pressed < MAX_NUM_KEYS
                          /\ ~InBuffer(st.curr_pressed_keys, st.num_keys_pressed)),
                !.num_keys_pressed = ToUint8(@ + 1)]

\* Body of the inner loop of scan_keys() for a pressed, non-dummy key,
\* keyboard.cpp 160-187.  st holds the fields the scan writes.  A call of
\* translate_modifier() whose index lies outside MODIFIER_MAP reads past the
\* table: the value it would OR in is indeterminate, the state is marked in
\* bad_lookup instead.
scan_key(st, pressed) ==
    LET st1 == [st EXCEPT
                  !.all_pressed_keys = Store(@, st.tot_num_keys_pressed, pressed),
                  !.overrun = @ \/ ~InBuffer(st.all_pressed_keys, st.tot_num_keys_pressed),
                  !.tot_num_keys_pressed = ToUint8(@ + 1)]
    IN  IF is_fn(pressed) THEN [st1 EXCEPT !.fn_pressed = TRUE]
        ELSE IF is_fn2(pressed) THEN [st1 EXCEPT !.fn2_pressed = TRUE]
        ELSE IF is_modifier(pressed) THEN
            IF InBuffer(MODIFIER_MAP, -1 * pressed.code - 1)
            THEN [st1 EXCEPT
                    !.current_modifier = BitOr(@, translate_modifier(pressed.code))]
            ELSE [st1 EXCEPT !.bad_lookup = TRUE]
        ELSE IF is_media(pressed) THEN [st1 EXCEPT !.pressed_media = pressed]
        ELSE [st1 EXCEPT
                !.curr_pressed_keys =
                    IF st.num_keys_pressed < MAX_NUM_KEYS
                    THEN Store(@, st.num_keys_pressed, pressed) ELSE @,
                !.overrun =
                    @ \/ (st.num_keys_pressed < MAX_NUM_KEYS
                          /\ ~InBuffer(st.curr_pressed_keys, st.num_keys_pressed)),
                !.num_keys_pressed = ToUint8(@ + 1)]

RECURSIVE scan_from(_, _, _)
\* scan_keys(), keyboard.cpp 147-193: the positions in row-major order, n the
\* number of positions already visited.
scan_from(n, low, st) ==
    IF n = NumPositions THEN st
    ELSE LET row == n \div NUM_COLS
             col == n % NUM_COLS
         IN  scan_from(n + 1, low,
                 IF ~is_dummy(KeyAt(row, col)) /\ <<row, col>> \in low
                 THEN scan_key(st, KeyAt(row, col)) ELSE st)

scan_keys(low, st) == scan_from(0, low, st)

\* update() up to and including scan_keys(), keyboard.cpp 130-140, with
\* reset_pressed_keys(), keyboard.cpp 102-112.
update_scan ==
    /\ pc = "idle"
    /\ cycle < MaxCycles
    /\ \E cleared \in {reset_all_pressed(0, all_pressed_keys)}, low \in Chords :
          \E st \in {scan_keys(low,
                        [all_pressed_keys |-> cleared,
                         tot_num_keys_pressed |-> 0,
                         fn_pressed |-> FALSE,
                         fn2_pressed |-> FALSE,
                         current_modifier |-> 0,
                         pressed_media |-> Key0,
                         curr_pressed_keys |-> [i \in Slots |-> Key0],
                         num_keys_pressed |-> 0,
                         overrun |-> overrun,
                         bad_lookup |-> bad_lookup])} :
              /\ pins' = low
              /\ all_pressed_keys' = st.all_pressed_keys
              /\ tot_num_keys_pressed' = st.tot_num_keys_pressed
              /\ fn_pressed' = st.fn_pressed
              /\ fn2_pressed' = st.fn2_pressed
              /\ current_modifier' = st.current_modifier
              /\ pressed_media' = st.pressed_media
              /\ curr_pressed_keys' = st.curr_pressed_keys
              /\ num_keys_pressed' = st.num_keys_pressed
              /\ overrun' = st.overrun
              /\ bad_lookup' = st.bad_lookup
    /\ prev_pressed_keys' = curr_pressed_keys
    /\ just_released_keys' = [i \in Slots |-> Key0]
    /\ num_keys_released' = 0
    /\ cycle' = cycle + 1
    /\ pc' = "scanned"
    /\ UNCHANGED << keys_to_send, codes_to_send, current_media, hid, sends >>

\* ------------------------------------------------------------ release phase
RECURSIVE found_from_short(_, _, _)
\* found_from with the loop bound one too small: the last entry of
\* curr_pressed_keys is never compared.
found_from_short(j, k, curr) ==
    IF j >= MAX_NUM_KEYS - 1 THEN FALSE
    ELSE IF KeyEq(k, curr[j]) THEN TRUE
    ELSE found_from_short(j + 1, k, curr)

RECURSIVE found_from(_, _, _)
\* Inner loop of remove_released_keys(), keyboard.cpp 201-207.
found_from(j, k, curr) ==
    IF j = MAX_NUM_KEYS THEN FALSE
    ELSE IF KeyEq(k, curr[j]) THEN TRUE
    ELSE found_from(j + 1, k, curr)

RECURSIVE remove_from_keeps_code(_, _, _)
\* remove_from without line 216: the code of a released slot is left behind.
remove_from_keeps_code(i, curr, st) ==
    IF i = MAX_NUM_KEYS THEN st
    ELSE LET k == st.keys_to_send[i]
         IN  remove_from_keeps_code(i + 1, curr,
                 IF ~is_dummy(k) /\ ~found_from(0, k, curr)
                 THEN [st EXCEPT
                         !.just_released_keys = Store(@, st.num_keys_released, k),
                         !.overrun = @ \/ ~InBuffer(st.just_released_keys, st.num_keys_released),
                         !.keys_to_send = [@ EXCEPT ![i] = Key0],
                         !.num_keys_released = ToUint8(@ + 1)]
                 ELSE st)

RECURSIVE remove_from_no_count(_, _, _)
\* remove_from without line 217: num_keys_released is never incremented.
remove_from_no_count(i, curr, st) ==
    IF i = MAX_NUM_KEYS THEN st
    ELSE LET k == st.keys_to_send[i]
         IN  remove_from_no_count(i + 1, curr,
                 IF ~is_dummy(k) /\ ~found_from(0, k, curr)
                 THEN [st EXCEPT
                         !.just_released_keys = Store(@, st.num_keys_released, k),
                         !.overrun = @ \/ ~InBuffer(st.just_released_keys, st.num_keys_released),
                         !.keys_to_send = [@ EXCEPT ![i] = Key0],
                         !.codes_to_send = [@ EXCEPT ![i] = KEY_DUMMY]]
                 ELSE st)

RECURSIVE remove_from_keeps_slot(_, _, _)
\* remove_from without lines 215-216: a released key is reported and counted
\* but stays in its slot.
remove_from_keeps_slot(i, curr, st) ==
    IF i = MAX_NUM_KEYS THEN st
    ELSE LET k == st.keys_to_send[i]
         IN  remove_from_keeps_slot(i + 1, curr,
                 IF ~is_dummy(k) /\ ~found_from(0, k, curr)
                 THEN [st EXCEPT
                         !.just_released_keys = Store(@, st.num_keys_released, k),
                         !.overrun = @ \/ ~InBuffer(st.just_released_keys, st.num_keys_released),
                         !.num_keys_released = ToUint8(@ + 1)]
                 ELSE st)

RECURSIVE remove_from(_, _, _)
\* Outer loop of remove_released_keys(), keyboard.cpp 196-220.
remove_from(i, curr, st) ==
    IF i = MAX_NUM_KEYS THEN st
    ELSE LET k == st.keys_to_send[i]
         IN  remove_from(i + 1, curr,
                 IF ~is_dummy(k) /\ ~found_from(0, k, curr)
                 THEN [st EXCEPT
                         !.just_released_keys = Store(@, st.num_keys_released, k),
                         !.overrun = @ \/ ~InBuffer(st.just_released_keys, st.num_keys_released),
                         !.keys_to_send = [@ EXCEPT ![i] = Key0],
                         !.codes_to_send = [@ EXCEPT ![i] = KEY_DUMMY],
                         !.num_keys_released = ToUint8(@ + 1)]
                 ELSE st)

remove_released_keys ==
    /\ pc = "scanned"
    /\ \E st \in {remove_from(0, curr_pressed_keys,
                     [just_released_keys |-> just_released_keys,
                      num_keys_released |-> num_keys_released,
                      keys_to_send |-> keys_to_send,
                      codes_to_send |-> codes_to_send,
                      overrun |-> overrun])} :
           /\ just_released_keys' = st.just_released_keys
           /\ num_keys_released' = st.num_keys_released
           /\ keys_to_send' = st.keys_to_send
           /\ codes_to_send' = st.codes_to_send
           /\ overrun' = st.overrun
    /\ pc' = "released"
    /\ UNCHANGED << cycle, pins, fn_pressed, fn2_pressed, num_keys_pressed,
                    tot_num_keys_pressed, curr_pressed_keys, prev_pressed_keys,
                    all_pressed_keys, current_modifier, pressed_media,
                    current_media, bad_lookup, hid, sends >>

\* ------------------------------------------------------------ placement phase
RECURSIVE place_search_no_resident_test(_, _, _, _, _)
\* place_search without the else-branch of lines 254-257: a resident key is
\* not recognised.
place_search_no_resident_test(i, k, slots, found, lowest) ==
    IF i = MAX_NUM_KEYS THEN <<found, lowest>>
    ELSE IF is_dummy(slots[i]) /\ ~found
         THEN place_search_no_resident_test(i + 1, k, slots, TRUE, i)
    ELSE place_search_no_resident_test(i + 1, k, slots, found, lowest)

RECURSIVE place_search_last_free(_, _, _, _, _)
\* place_search without `&& !found_lowest_index` in line 250: the index kept
\* is that of the last empty slot.
place_search_last_free(i, k, slots, found, lowest) ==
    IF i = MAX_NUM_KEYS THEN <<found, lowest>>
    ELSE IF is_dummy(slots[i]) THEN place_search_last_free(i + 1, k, slots, TRUE, i)
    ELSE IF KeyEq(slots[i], k) THEN "sent"
    ELSE place_search_last_free(i + 1, k, slots, found, lowest)

RECURSIVE place_search(_, _, _, _, _)
\* Loop of try_place_key(), keyboard.cpp 246-258.  Result: "sent" when the
\* loop returns false because the key is resident, else the pair
\* <<found_lowest_index, lowest_free_index>>.
place_search(i, k, slots, found, lowest) ==
    IF i = MAX_NUM_KEYS THEN <<found, lowest>>
    ELSE IF is_dummy(slots[i]) /\ ~found THEN place_search(i + 1, k, slots, TRUE, i)
    ELSE IF KeyEq(slots[i], k) THEN "sent"
    ELSE place_search(i + 1, k, slots, found, lowest)

\* select_code without the tests of lines 265-270: always the primary code.
select_code_primary_only(k, fn, fn2) == ToUint8(k.code)

\* The code try_place_key() selects, keyboard.cpp 263-271, as the uint8_t it
\* is held in.
select_code(k, fn, fn2) ==
    IF has_second(k) /\ fn THEN ToUint8(k.second)
    ELSE IF has_third(k) /\ fn2 THEN ToUint8(k.third)
    ELSE ToUint8(k.code)

\* try_place_key(), keyboard.cpp 243-279, on the two output arrays.
try_place_key(k, st, fn, fn2) ==
    LET r == place_search(0, k, st.keys_to_send, FALSE, 0)
    IN  IF r = "sent" THEN st
        ELSE IF ~r[1] THEN st
        ELSE [keys_to_send |-> Store(st.keys_to_send, r[2], k),
              codes_to_send |-> Store(st.codes_to_send, r[2], select_code(k, fn, fn2)),
              overrun |-> st.overrun \/ ~InBuffer(st.keys_to_send, r[2])]

RECURSIVE place_from_stops_early(_, _, _, _, _)
\* place_from with the loop bound one too small: the last entry of
\* curr_pressed_keys is never placed.
place_from_stops_early(i, curr, st, fn, fn2) ==
    IF i >= MAX_NUM_KEYS - 1 THEN st
    ELSE place_from_stops_early(i + 1, curr,
             IF ~is_dummy(curr[i]) THEN try_place_key(curr[i], st, fn, fn2) ELSE st,
             fn, fn2)

RECURSIVE place_from(_, _, _, _, _)
\* Loop of update_keys_to_send(), keyboard.cpp 225-230.
place_from(i, curr, st, fn, fn2) ==
    IF i = MAX_NUM_KEYS THEN st
    ELSE place_from(i + 1, curr,
             IF ~is_dummy(curr[i]) THEN try_place_key(curr[i], st, fn, fn2) ELSE st,
             fn, fn2)

\* resolve_media without the test of line 233: the second code of a media
\* key is never used.
resolve_media_ignores_fn(media, fn) ==
    IF ~is_dummy(media) THEN media.code ELSE 0

\* Media resolution, keyboard.cpp 232-240.
resolve_media(media, fn) ==
    IF ~is_dummy(media)
    THEN IF has_second(media) /\ fn THEN media.second ELSE media.code
    ELSE 0

\* update_keys_to_send without the else-branch of lines 238-240: with no media
\* key pressed, current_media keeps its value.
update_keys_to_send_keeps_media ==
    /\ pc = "released"
    /\ \E st \in {place_from(0, curr_pressed_keys,
                     [keys_to_send |-> keys_to_send, codes_to_send |-> codes_to_send,
                      overrun |-> overrun],
                     fn_pressed, fn2_pressed)} :
           /\ keys_to_send' = st.keys_to_send
           /\ codes_to_send' = st.codes_to_send
           /\ overrun' = st.overrun
    /\ current_media' = IF is_dummy(pressed_media) THEN current_media
                        ELSE resolve_media(pressed_media, fn_pressed)
    /\ pc' = "resolved"
    /\ UNCHANGED << cycle, pins, fn_pressed, fn2_pressed, num_keys_pressed,
                    num_keys_released, tot_num_keys_pressed, curr_pressed_keys,
                    prev_pressed_keys, all_pressed_keys, just_released_keys,
                    current_modifier, pressed_media, bad_lookup, hid, sends >>

\* update_keys_to_send() after remove_released_keys(), keyboard.cpp 225-240.
update_keys_to_send ==
    /\ pc = "released"
    /\ \E st \in {place_from(0, curr_pressed_keys,
                     [keys_to_send |-> keys_to_send, codes_to_send |-> codes_to_send,
                      overrun |-> overrun],
                     fn_pressed, fn2_pressed)} :
           /\ keys_to_send' = st.keys_to_send
           /\ codes_to_send' = st.codes_to_send
           /\ overrun' = st.overrun
    /\ current_media' = resolve_media(pressed_media, fn_pressed)
    /\ pc' = "resolved"
    /\ UNCHANGED << cycle, pins, fn_pressed, fn2_pressed, num_keys_pressed,
                    num_keys_released, tot_num_keys_pressed, curr_pressed_keys,
                    prev_pressed_keys, all_pressed_keys, just_released_keys,
                    current_modifier, pressed_media, bad_lookup, hid, sends >>

\* ------------------------------------------------------------ emission
\* send_keys with the six set_key calls in the opposite slot order.
send_keys_reversed ==
    /\ pc = "resolved"
    /\ hid' = [keys |-> [i \in Slots |-> codes_to_send[MAX_NUM_KEYS - 1 - i]],
               modifier |-> current_modifier,
               media |-> current_media]
    /\ sends' = sends + 1
    /\ pc' = "idle"
    /\ UNCHANGED << cycle, pins, fn_pressed, fn2_pressed, num_keys_pressed,
                    num_keys_released, tot_num_keys_pressed, curr_pressed_keys,
                    prev_pressed_keys, all_pressed_keys, just_released_keys,
                    keys_to_send, codes_to_send, current_modifier, pressed_media,
                    current_media, overrun, bad_lookup >>

\* send_keys(), keyboard.cpp 281-295.
send_keys ==
    /\ pc = "resolved"
    /\ hid' = [keys |-> codes_to_send, modifier |-> current_modifier,
               media |-> current_media]
    /\ sends' = sends + 1
    /\ pc' = "idle"
    /\ UNCHANGED << cycle, pins, fn_pressed, fn2_pressed, num_keys_pressed,
                    num_keys_released, tot_num_keys_pressed, curr_pressed_keys,
                    prev_pressed_keys, all_pressed_keys, just_released_keys,
                    keys_to_send, codes_to_send, current_modifier, pressed_media,
                    current_media, overrun, bad_lookup >>

\* ------------------------------------------------------------ accessors
\* The getter returning the counter of the sendable keys instead.
get_num_keys_pressed_sendable == num_keys_pressed

\* get_num_keys_pressed(), keyboard.cpp 122-124.
get_num_keys_pressed == tot_num_keys_pressed

Next ==
    \/ update_scan
    \/ remove_released_keys
    \/ update_keys_to_send
    \/ send_keys

Spec == Init /\ [][Next]_vars

\* ------------------------------------------------------------ properties
\* The switch of key k is read as active in the reading `low`.
PressedIn(low, k) == \E p \in low : KeyEq(KeyAt(p[1], p[2]), k)

\* k is in this cycle's curr_pressed_keys (by operator==).
InCurr(k) == \E j \in Slots : KeyEq(curr_pressed_keys[j], k)

\* k was in the previous cycle's curr_pressed_keys.
InPrev(k) == \E j \in Slots : KeyEq(prev_pressed_keys[j], k)

Occupied(i) == ~is_dummy(keys_to_send[i])

\* An update() call has run to its end (or to the point before send_keys).
Resolved == cycle > 0 /\ pc \in {"resolved", "idle"}

\* The effective code of section 4.3 of the specification: third code when
\* FN2 is active and the key has one, else second code when FN is active and
\* the key has one, else the primary code.
ResolvedCode(k, fn, fn2) ==
    IF fn2 /\ has_third(k) THEN k.third
    ELSE IF fn /\ has_second(k) THEN k.second
    ELSE k.code

\* C1: slot stability.  In every step of a cycle, a key that sits in slot i
\* and whose switch is read as active in that cycle still sits in slot i
\* after the step: a held key is never evicted or moved, however many other
\* keys are pressed.
C1_SlotStability ==
    [][\A i \in Slots :
          (Occupied(i) /\ PressedIn(pins', keys_to_send[i]))
              => keys_to_send'[i] = keys_to_send[i]]_vars

\* C2: per-cycle code resolution.  After every update() cycle the code of
\* every occupied slot is the code resolved from the layer flags of that
\* cycle (compared as the uint8_t the slot stores).  The case of both flags
\* on a key with both alternates is left to C3.
C2_PerCycleResolution ==
    Resolved =>
        \A i \in Slots :
            (Occupied(i)
             /\ ~(fn_pressed /\ fn2_pressed
                  /\ has_second(keys_to_send[i]) /\ has_third(keys_to_send[i])))
                => codes_to_send[i]
                     = ToUint8(ResolvedCode(keys_to_send[i], fn_pressed, fn2_pressed))

\* C3: layer precedence.  A key with a second and a third code that the
\* placement phase puts into a slot while FN and FN2 are both pressed gets
\* its third code.
C3_LayerPrecedence ==
    [][\A i \in Slots :
          (/\ pc = "released"
           /\ fn_pressed /\ fn2_pressed
           /\ is_dummy(keys_to_send[i]) /\ ~is_dummy(keys_to_send'[i])
           /\ has_second(keys_to_send'[i]) /\ has_third(keys_to_send'[i]))
              => codes_to_send'[i] = ToUint8(keys_to_send'[i].third)]_vars

\* C4: slots/codes agreement.  In every state, slot i holds the dummy key
\* exactly when codes_to_send[i] is 0.
C4_SlotsCodesAgree ==
    \A i \in Slots : is_dummy(keys_to_send[i]) <=> codes_to_send[i] = 0

\* The release phase has just cleared a slot that was emitted with a code in
\* the cycle before, while another slot stays occupied.
C4_Witness ==
    /\ pc = "released"
    /\ \E i, j \in Slots : Occupied(i) /\ ~Occupied(j) /\ hid.keys[j] # 0

\* C5: no duplicate slots.  No two distinct slots hold keys that are equal
\* under operator==.
C5_NoDuplicateSlots ==
    \A i, j \in Slots :
        (i # j /\ Occupied(i)) => ~KeyEq(keys_to_send[i], keys_to_send[j])

\* A key held over two consecutive cycles is resident after the second one,
\* next to a key placed in the second cycle.
C5_Witness ==
    /\ pc = "idle"
    /\ cycle = 2
    /\ \E i, j \in Slots :
          /\ Occupied(i) /\ InPrev(keys_to_send[i]) /\ InCurr(keys_to_send[i])
          /\ Occupied(j) /\ ~InPrev(keys_to_send[j])

\* C6: release detection completeness.  The release phase records every key
\* that was in curr_pressed_keys in the cycle before and is not in it now
\* exactly once in just_released_keys[0 .. num_keys_released-1], and clears
\* the slot that key held (dummy key, code 0).
C6_ReleaseComplete ==
    [][pc = "scanned" =>
          \A j \in Slots :
              LET k == prev_pressed_keys[j]
              IN  (~is_dummy(k) /\ ~InCurr(k)) =>
                      /\ Cardinality({n \in Slots :
                                         /\ n < num_keys_released'
                                         /\ KeyEq(just_released_keys'[n], k)}) = 1
                      /\ \E i \in Slots : KeyEq(keys_to_send[i], k)
                      /\ \A i \in Slots :
                             KeyEq(keys_to_send[i], k) =>
                                 /\ is_dummy(keys_to_send'[i])
                                 /\ codes_to_send'[i] = 0]_vars

\* The release phase has run in a cycle whose buffer lacks a key of the
\* buffer before it and keeps another.
C6_Witness ==
    /\ pc = "released"
    /\ \E j, l \in Slots :
          /\ ~is_dummy(prev_pressed_keys[j]) /\ ~InCurr(prev_pressed_keys[j])
          /\ ~is_dummy(prev_pressed_keys[l]) /\ InCurr(prev_pressed_keys[l])

\* C7: released set soundness.  Every key recorded in just_released_keys is
\* a key of the previous cycle whose switch is not read as active in this
\* cycle.
C7_ReleasedSound ==
    pc \in {"released", "resolved", "idle"} =>
        \A n \in Slots :
            n < num_keys_released =>
                /\ ~is_dummy(just_released_keys[n])
                /\ InPrev(just_released_keys[n])
                /\ ~PressedIn(pins, just_released_keys[n])

\* C8: capacity ceiling.  No write ever goes past the end of a buffer, and
\* after a cycle in which more than MAX_NUM_KEYS ordinary keys are pressed
\* exactly MAX_NUM_KEYS slots are occupied, by exactly MAX_NUM_KEYS of the
\* pressed keys.
C8_CapacityCeiling ==
    /\ ~overrun
    /\ (Resolved /\ Cardinality(pins \cap OrdinaryPos) > MAX_NUM_KEYS) =>
          /\ Cardinality({i \in Slots : Occupied(i)}) = MAX_NUM_KEYS
          /\ Cardinality({p \in pins \cap OrdinaryPos :
                             \E i \in Slots : keys_to_send[i] = KeyAt(p[1], p[2])})
                 = MAX_NUM_KEYS

\* A second cycle with all seven ordinary keys pressed has ended.
C8_Witness ==
    /\ pc = "idle"
    /\ cycle = 2
    /\ Cardinality(pins \cap OrdinaryPos) > MAX_NUM_KEYS
    /\ \E j \in Slots : ~is_dummy(prev_pressed_keys[j])

\* C9: stability relative to the scan buffer.  The only step that changes an
\* occupied slot is the release phase, it only empties it, and only when the
\* key is absent from this cycle's curr_pressed_keys; a resident key that is
\* in curr_pressed_keys keeps its index through release and placement.
C9_StableInBuffer ==
    [][\A i \in Slots :
          (Occupied(i) /\ keys_to_send'[i] # keys_to_send[i]) =>
              /\ pc = "scanned"
              /\ ~InCurr(keys_to_send[i])
              /\ is_dummy(keys_to_send'[i])]_vars

\* After release and placement a key of the previous cycle still sits in a
\* slot above slot 0 although slot 0 has been emptied in this cycle.
C9_Witness ==
    /\ pc = "resolved"
    /\ num_keys_released > 0
    /\ is_dummy(keys_to_send[0])
    /\ \E i \in Slots :
          i > 0 /\ Occupied(i) /\ InPrev(keys_to_send[i]) /\ InCurr(keys_to_send[i])

\* C10: idle output.  After a cycle in which no position is read as active,
\* all six codes are 0, current_modifier is 0 and current_media is 0.
C10_IdleOutput ==
    (Resolved /\ pins = {}) =>
        /\ \A i \in Slots : codes_to_send[i] = 0
        /\ current_modifier = 0
        /\ current_media = 0

\* An idle cycle has been resolved after a cycle that emitted a key code, a
\* modifier and a media code.
C10_Witness ==
    /\ pc = "resolved"
    /\ pins = {}
    /\ hid.keys[0] # 0
    /\ hid.modifier # 0
    /\ hid.media # 0

\* Position of <<row, col>> in the row-major order of the scan.
ScanIndex(p) == p[1] * NUM_COLS + p[2]

\* The FN key is among the switches read as active.
FnIn(low) == \E p \in low : KeyAt(p[1], p[2]).code = KEY_FN

\* The media key of the reading `low` that comes last in scan order, the
\* dummy key if it has none.
LastMedia(low) ==
    LET m == {p \in low : is_media(KeyAt(p[1], p[2]))}
    IN  IF m = {} THEN Key0
        ELSE LET p == CHOOSE p \in m : \A q \in m : ScanIndex(q) <= ScanIndex(p)
             IN  KeyAt(p[1], p[2])

\* C11: media resolution.  After every cycle current_media is 0 if no media
\* key is read as active in the cycle; otherwise it is the second code of the
\* media key observed if FN is pressed in the cycle and that key has one, and
\* its primary code if not.  FN2 and the media value of earlier cycles play
\* no part.
C11_MediaResolution ==
    Resolved =>
        LET m == LastMedia(pins)
        IN  current_media =
                IF is_dummy(m) THEN 0
                ELSE IF FnIn(pins) /\ m.second # KEY_DUMMY THEN m.second
                ELSE m.code

\* A second cycle resolves a media key to its second code with FN and FN2
\* both pressed, after a cycle that emitted another media code.
C11_Witness ==
    /\ pc = "resolved"
    /\ cycle = 2
    /\ fn_pressed /\ fn2_pressed
    /\ ~is_dummy(pressed_media) /\ has_second(pressed_media)
    /\ hid.media # 0
    /\ hid.media # pressed_media.second

\* C12: media last-write-wins.  pressed_media is the media key of the cycle's
\* reading that comes last in row-major scan order (the dummy key if there is
\* none), and no entry of curr_pressed_keys or of keys_to_send is a media
\* key.
C12_MediaLastWins ==
    /\ pressed_media = LastMedia(pins)
    /\ \A i \in Slots :
          /\ (curr_pressed_keys[i].code \div 256) % 256 # 228
          /\ (keys_to_send[i].code \div 256) % 256 # 228

\* A scan has read two media keys and an ordinary key as active.
C12_Witness ==
    /\ pc = "scanned"
    /\ Cardinality({p \in pins : is_media(KeyAt(p[1], p[2]))}) = 2
    /\ ~is_dummy(curr_pressed_keys[0])

RECURSIVE OrBits(_, _)
\* Bitwise OR of a set of 16-bit values, bit by bit from bit b.
OrBits(b, vals) ==
    IF b = 16 THEN 0
    ELSE (IF \E v \in vals : (v \div (2 ^ b)) % 2 = 1 THEN 2 ^ b ELSE 0)
         + OrBits(b + 1, vals)

\* The MODIFIER_MAP entries of the keys with codes -1..-6 in the reading.
ModifierBits(low) ==
    {MODIFIER_MAP[-1 * KeyAt(p[1], p[2]).code - 1] :
        p \in {q \in low : KeyAt(q[1], q[2]).code \in (-1 * NUM_MODIFIERS)..(-1)}}

\* C13: modifier aggregation.  After every cycle current_modifier is the
\* bitwise OR of MODIFIER_MAP[-code-1] over exactly the keys with codes
\* -1..-6 read as active in that cycle, 0 when there is none: no bit comes
\* from an earlier cycle, and FN and FN2 add none.
C13_ModifierAggregation ==
    Resolved => current_modifier = OrBits(0, ModifierBits(pins))

\* A cycle with three or more modifier keys pressed follows a cycle that
\* emitted a modifier bit this cycle does not have.
C13_Witness ==
    /\ pc = "resolved"
    /\ cycle = 2
    /\ Cardinality(pins \cap ModifierPos) >= 3
    /\ BitOr(hid.modifier, current_modifier) # current_modifier

\* k sits in one of the slots.
Resident(k, slots) == \E i \in Slots : KeyEq(slots[i], k)

FreeSlots(slots) == {i \in Slots : is_dummy(slots[i])}

\* The empty slot with exactly n empty slots below it.
NthFree(n, slots) ==
    CHOOSE i \in FreeSlots(slots) :
        Cardinality({f \in FreeSlots(slots) : f < i}) = n

\* The entries of curr_pressed_keys before index j that are not resident
\* when the placement phase starts.
NewBefore(j) ==
    Cardinality({l \in Slots :
                    /\ l < j
                    /\ ~is_dummy(curr_pressed_keys[l])
                    /\ ~Resident(curr_pressed_keys[l], keys_to_send)})

\* C14: lowest-free-slot placement.  The placement phase writes each key of
\* curr_pressed_keys that is not resident to the lowest-index slot that is
\* empty at that moment: the n-th such key, in buffer order, goes to the
\* n-th empty slot.  In the first cycle a single ordinary key pressed alone
\* lands in slot 0 with its primary code (as the uint8_t the slot is written
\* from), and when a cycle with no key pressed follows, slot 0 is empty
\* again, its code 0, and the key is just_released_keys[0].
C14_LowestFreeSlot ==
    [][pc = "released" =>
          /\ \A j \in Slots :
                LET k == curr_pressed_keys[j]
                    n == NewBefore(j)
                IN  (/\ ~is_dummy(k)
                     /\ ~Resident(k, keys_to_send)
                     /\ n < Cardinality(FreeSlots(keys_to_send)))
                        => keys_to_send'[NthFree(n, keys_to_send)] = k
          /\ \A p \in OrdinaryPos :
                (cycle = 1 /\ pins = {p}) =>
                    /\ keys_to_send'[0] = KeyAt(p[1], p[2])
                    /\ codes_to_send'[0] = KeyAt(p[1], p[2]).code % 256
                    /\ \A i \in Slots : i > 0 => is_dummy(keys_to_send'[i])
          /\ (/\ cycle = 2 /\ pins = {}
              /\ ~is_dummy(prev_pressed_keys[0]) /\ is_dummy(prev_pressed_keys[1])
              /\ hid.modifier = 0 /\ hid.media = 0) =>
                    /\ is_dummy(keys_to_send'[0])
                    /\ codes_to_send'[0] = 0
                    /\ num_keys_released' = 1
                    /\ just_released_keys'[0] = prev_pressed_keys[0]]_vars

\* In a second cycle the key of slot 1 is held, the key of slot 0 has been
\* released, and two keys are new: one has taken slot 0, the other a slot
\* above slot 1.
C14_Witness ==
    /\ pc = "resolved"
    /\ cycle = 2
    /\ Occupied(0) /\ ~InPrev(keys_to_send[0])
    /\ Occupied(1) /\ InPrev(keys_to_send[1])
    /\ \E i \in Slots : i > 1 /\ Occupied(i) /\ ~InPrev(keys_to_send[i])

\* C15: phase ordering.  When the cycle before emitted six codes (all six
\* slots occupied), and in this cycle one resident key is released while six
\* ordinary keys are pressed, the placement phase finds the released key's
\* slot free: the new key is placed in it in this same cycle, the other five
\* slots keep their keys, and the released key is gone.
C15_PhaseOrdering ==
    [][(/\ pc = "released"
        /\ \A i \in Slots : hid.keys[i] # 0
        /\ num_keys_released = 1
        /\ Cardinality(pins \cap OrdinaryPos) = MAX_NUM_KEYS) =>
          \A p \in pins \cap OrdinaryPos :
              ~InPrev(KeyAt(p[1], p[2])) =>
                  \E i \in Slots :
                      /\ keys_to_send'[i] = KeyAt(p[1], p[2])
                      /\ codes_to_send'[i] # 0
                      /\ \A j \in Slots :
                            /\ ~KeyEq(keys_to_send'[j], just_released_keys[0])
                            /\ j # i => (/\ ~is_dummy(keys_to_send'[j])
                                         /\ keys_to_send'[j] = keys_to_send[j]
                                         /\ InPrev(keys_to_send'[j]))]_vars

\* A second cycle ends with six slots occupied after six codes were emitted
\* in the first, one key released, and the new key in slot 0.
C15_Witness ==
    /\ pc = "resolved"
    /\ cycle = 2
    /\ \A i \in Slots : hid.keys[i] # 0 /\ Occupied(i)
    /\ num_keys_released = 1
    /\ Cardinality(pins \cap OrdinaryPos) = MAX_NUM_KEYS
    /\ ~InPrev(keys_to_send[0])

\* C16: layer-1 resolution at placement.  In a cycle in which FN is pressed
\* and FN2 is not, every key of curr_pressed_keys that has a second code and
\* is not resident when the cycle starts ends the cycle in a slot whose code
\* is the second code, not the primary one, whether the scan meets the FN key
\* before or after it.
C16_Layer1AtPlacement ==
    [][(pc = "released" /\ fn_pressed /\ ~fn2_pressed) =>
          \A j \in Slots :
              LET k == curr_pressed_keys[j]
              IN  (~is_dummy(k) /\ k.second # KEY_DUMMY /\ ~Resident(k, keys_to_send))
                      => \E i \in Slots :
                             /\ keys_to_send'[i] = k
                             /\ codes_to_send'[i] = k.second % 256
                             /\ codes_to_send'[i] # k.code % 256]_vars

\* FN is pressed with a key the scan meets before the FN key (row 0,
\* column 0) and a key it meets after it (row 1, column 1); both sit in
\* slots with their second codes.
C16_Witness ==
    /\ pc = "resolved"
    /\ fn_pressed /\ ~fn2_pressed
    /\ \E i, j \in Slots :
          /\ keys_to_send[i] = KeyAt(0, 0) /\ codes_to_send[i] = KeyAt(0, 0).second
          /\ keys_to_send[j] = KeyAt(1, 1) /\ codes_to_send[j] = KeyAt(1, 1).second
          /\ ~InPrev(keys_to_send[i]) /\ ~InPrev(keys_to_send[j])

\* current_media as the reading `low` alone determines it.
MediaOf(low) ==
    IF is_dummy(LastMedia(low)) THEN 0
    ELSE IF FnIn(low) /\ LastMedia(low).second # KEY_DUMMY THEN LastMedia(low).second
    ELSE LastMedia(low).code

\* C17: one emission per cycle, in order.  The steps of update() follow one
\* another as scan, release, placement, emission; send_now() is called in
\* the emission step and in no other, so that a finished cycle has had
\* exactly one emission and an unfinished one none yet; the six codes given
\* to the Keyboard object are codes_to_send[0..5] in slot order, and the
\* modifier and media values given are the ones of the cycle's own reading.
C17_OneEmissionPerCycle ==
    [][/\ pc = "idle" => pc' = "scanned"
       /\ pc = "scanned" => pc' = "released"
       /\ pc = "released" => pc' = "resolved"
       /\ pc = "resolved" => pc' = "idle"
       /\ sends' = (IF pc = "resolved" THEN sends + 1 ELSE sends)
       /\ pc' # "idle" => sends' = cycle' - 1
       /\ pc' = "idle" =>
              /\ sends' = cycle'
              /\ \A i \in Slots : hid'.keys[i] = codes_to_send'[i]
              /\ hid'.modifier = current_modifier'
              /\ hid'.modifier = OrBits(0, ModifierBits(pins'))
              /\ hid'.media = current_media'
              /\ hid'.media = MediaOf(pins')]_vars

\* Two cycles have ended with two emissions; the second emitted two
\* different codes, a modifier and a media code after a release.
C17_Witness ==
    /\ pc = "idle"
    /\ cycle = 2 /\ sends = 2
    /\ num_keys_released > 0
    /\ hid.keys[0] # 0
    /\ hid.modifier # 0
    /\ hid.media # 0

\* C18 as claimed: after every cycle get_num_keys_pressed() is the number of
\* ordinary keys (not modifier, FN, FN2 or media) read as active in the
\* cycle, those beyond the sixth included.
C18_ReportedOrdinaryCount ==
    Resolved => get_num_keys_pressed = Cardinality(pins \cap OrdinaryPos)

\* C18 as amended: after every cycle get_num_keys_pressed() is the number of
\* all populated positions read as active in the cycle: ordinary keys (those
\* beyond the sixth included), modifier keys, FN, FN2 and media keys alike.
C18_ReportedAllCount ==
    Resolved =>
        get_num_keys_pressed
            = Cardinality({p \in pins : KeyAt(p[1], p[2]).code # KEY_DUMMY})

\* A cycle has ended with all seven ordinary keys, FN and FN2 pressed.
C18_Witness ==
    /\ pc = "idle"
    /\ Cardinality(pins \cap OrdinaryPos) > MAX_NUM_KEYS
    /\ fn_pressed /\ fn2_pressed

\* The number of positions of the set `ord` before p in scan order.
ScanRank(p, ord) == Cardinality({q \in ord : ScanIndex(q) < ScanIndex(p)})

\* C19: slots mirror the capped scan buffer.  After every cycle
\* curr_pressed_keys holds the first min(n, 6) ordinary keys of the reading
\* in row-major scan order, and the keys in the slots are exactly the keys of
\* curr_pressed_keys: each of them has a slot, none was refused for lack of
\* room.
C19_SlotsMirrorBuffer ==
    Resolved =>
        /\ LET ord == pins \cap OrdinaryPos
           IN  /\ \A p \in ord :
                     ScanRank(p, ord) < MAX_NUM_KEYS
                         => curr_pressed_keys[ScanRank(p, ord)] = KeyAt(p[1], p[2])
               /\ \A j \in Slots :
                     j >= Cardinality(ord) => curr_pressed_keys[j].code = KEY_DUMMY
        /\ {keys_to_send[i] : i \in {l \in Slots : keys_to_send[l].code # KEY_DUMMY}}
               = {curr_pressed_keys[j] :
                     j \in {l \in Slots : curr_pressed_keys[l].code # KEY_DUMMY}}

\* A second cycle with more than six ordinary keys pressed has ended; it
\* released a key of the first cycle and placed keys the first did not have.
C19_Witness ==
    /\ pc = "idle"
    /\ cycle = 2
    /\ Cardinality(pins \cap OrdinaryPos) > MAX_NUM_KEYS
    /\ num_keys_released > 0
    /\ \E i \in Slots : Occupied(i) /\ ~InPrev(keys_to_send[i])

\* C20: the modifier lookup stays in bounds.  No scan reads MODIFIER_MAP
\* outside 0..NUM_MODIFIERS-1: every key of a reading that reaches
\* translate_modifier() (negative code, neither FN nor FN2) has a code in
\* -1..-6, and the FN and FN2 keys never reach it.
C20_ModifierLookupInBounds ==
    /\ ~bad_lookup
    /\ \A p \in pins :
          LET c == KeyAt(p[1], p[2]).code
          IN  (c < 0 /\ c # KEY_FN /\ c # KEY_FN2)
                  => (-1 * c - 1) \in 0..(NUM_MODIFIERS - 1)
    /\ (pc # "idle" /\ pins \subseteq LayerPos) => current_modifier = 0

\* A scan has read FN, FN2 and a modifier key as active.
C20_Witness ==
    /\ pc = "scanned"
    /\ fn_pressed /\ fn2_pressed
    /\ current_modifier # 0

\* The int code the tests of try_place_key() select for k, before it is
\* assigned to the uint8_t.
SelectedInt(k, fn, fn2) ==
    IF k.second # KEY_DUMMY /\ fn THEN k.second
    ELSE IF k.third # KEY_DUMMY /\ fn2 THEN k.third
    ELSE k.code

\* C21: code narrowing.  Every code in codes_to_send lies in 0..255; the code
\* the placement phase stores for a key it newly places is the selected int
\* code modulo 256, and it equals the selected code exactly when that code
\* is itself in 0..255.
C21_CodeNarrowing ==
    [][/\ \A i \in Slots : codes_to_send'[i] \in 0..255
       /\ pc = "released" =>
              \A i \in Slots :
                  (is_dummy(keys_to_send[i]) /\ ~is_dummy(keys_to_send'[i])) =>
                      LET sel == SelectedInt(keys_to_send'[i], fn_pressed, fn2_pressed)
                      IN  /\ codes_to_send'[i] = sel % 256
                          /\ (codes_to_send'[i] = sel) <=> (sel \in 0..255)]_vars

\* The placement phase has placed a key whose primary code is above 255 and
\* is stored narrowed, next to a key whose code is stored as it is.
C21_Witness ==
    /\ pc = "resolved"
    /\ \E i, j \in Slots :
          /\ Occupied(i) /\ ~InPrev(keys_to_send[i])
          /\ keys_to_send[i].code > 255
          /\ codes_to_send[i] = keys_to_send[i].code - 61440
          /\ Occupied(j) /\ ~InPrev(keys_to_send[j])
          /\ codes_to_send[j] = keys_to_send[j].code

====
